---- MODULE Spec2Model ----
(***************************************************************************)
(* The flight-dynamics main loop of example.py: the event drain, the      *)
(* flight-mode controller and the heading integration, one loop           *)
(* iteration ("tick") at a time; and the display object of pfd/pfd.py.    *)
(*                                                                         *)
(* Numbers.  The program computes in binary floating point.  Here every   *)
(* physical quantity is a fixed-point integer counting hundredths of its  *)
(* unit (Q(1) = 100 quanta: degrees, feet, knots, feet per minute, g),    *)
(* and every arithmetic operation rounds its result to the nearest        *)
(* quantum, as a float operation rounds to the nearest representable      *)
(* value.  Rates are in tenths per second and dt in milliseconds, which   *)
(* is what clock.tick() returns before the division by 1000.              *)
(***************************************************************************)
EXTENDS Integers, Sequences, FiniteSets, TLC

VARIABLES
    mode, prev_mode,                 \* example.py:65-66
    ALTITUDE_CMD, IAS_CMD,           \* example.py:69-70
    bank_angle,                      \* example.py:60
    roll, pitch, heading,            \* example.py:72-74
    airspeed, altitude, vspeed,      \* example.py:75-77
    g_factor,                        \* example.py:79
    dt,                              \* example.py:98 (milliseconds)
    running,                         \* example.py:96
    pc,                              \* position in the loop body
    queue,                           \* pygame's event queue
    batch,                           \* the list pygame.event.get() returned
    clicks,                          \* number of events posted so far
    applied,                         \* events applied in this loop iteration
    settle,                          \* consecutive iterations, without an event,
                                     \* that ended in CLIMB, DESCENT or ALT_CAPTURE
    last,                            \* what the last step was and what it saw
    sm,                              \* smooth() iterated on its own (SmoothSpec)
    turning,                         \* consecutive iterations that ended in ROLLS
                                     \* since an event changed the mode or the
                                     \* bank selection
    pfd                              \* the display object, pfd.py:38-109

vars == << mode, prev_mode, ALTITUDE_CMD, IAS_CMD, bank_angle, roll, pitch,
           heading, airspeed, altitude, vspeed, g_factor, dt, running, pc,
           queue, batch, clicks, applied, settle, last, sm, turning, pfd >>

-----------------------------------------------------------------------------
(* Bounds of the model *)

\* events the user posts in one run
MaxClicks == 2
\* events waiting in pygame's queue at one time
MaxQueue == 2
\* loop iterations counted by settle before it stops counting
SettleTicks == 150
\* loop iterations counted by turning before it stops counting
TurnTicks == 40
\* events the user posts in one run that starts with a bank selected (TurnSpec)
TurnClicks == 1
\* smooth() on its own starts from 53 * i hundredths, i in -SmoothRange..SmoothRange
SmoothRange == 20

\* frame times in milliseconds; the frame time is steady over a run
DTS == {250, 333}

-----------------------------------------------------------------------------
(* Fixed-point arithmetic *)

\* whole units to quanta
Q(n) == n * 100

Abs(x) == IF x < 0 THEN -x ELSE x
Max(a, b) == IF a >= b THEN a ELSE b
Min(a, b) == IF a <= b THEN a ELSE b

\* a / b rounded to the nearest integer, halves away from zero (b > 0)
RoundDiv(a, b) ==
    IF a >= 0 THEN (2 * a + b) \div (2 * b)
              ELSE -((2 * (-a) + b) \div (2 * b))

\* tan and cos of whole degrees 0..66, in units of 1/10000
TanTable ==
    << 0, 175, 349, 524, 699, 875, 1051, 1228, 1405, 1584,
       1763, 1944, 2126, 2309, 2493, 2679, 2867, 3057, 3249, 3443,
       3640, 3839, 4040, 4245, 4452, 4663, 4877, 5095, 5317, 5543,
       5774, 6009, 6249, 6494, 6745, 7002, 7265, 7536, 7813, 8098,
       8391, 8693, 9004, 9325, 9657, 10000, 10355, 10724, 11106, 11504,
       11918, 12349, 12799, 13270, 13764, 14281, 14826, 15399, 16003, 16643,
       17321, 18040, 18807, 19626, 20503, 21445, 22460 >>

CosTable ==
    << 10000, 9998, 9994, 9986, 9976, 9962, 9945, 9925, 9903, 9877,
       9848, 9816, 9781, 9744, 9703, 9659, 9613, 9563, 9511, 9455,
       9397, 9336, 9272, 9205, 9135, 9063, 8988, 8910, 8829, 8746,
       8660, 8572, 8480, 8387, 8290, 8192, 8090, 7986, 7880, 7771,
       7660, 7547, 7431, 7314, 7193, 7071, 6947, 6820, 6691, 6561,
       6428, 6293, 6157, 6018, 5878, 5736, 5592, 5446, 5299, 5150,
       5000, 4848, 4695, 4540, 4384, 4226, 4067 >>

\* table lookup at a (quanta of degrees, >= 0), linear between whole degrees;
\* the tables end at 66 degrees, beyond any bank the program commands
Interp(table, a) ==
    LET d == Min(a \div Q(1), 65)
        f == IF a \div Q(1) > 65 THEN Q(1) ELSE a % Q(1)
    IN  table[d + 1] + RoundDiv((table[d + 2] - table[d + 1]) * f, Q(1))

\* np.tan(np.radians(x)), in 1/10000
Tan(x) == IF x >= 0 THEN Interp(TanTable, x) ELSE -Interp(TanTable, -x)

\* np.cos(np.radians(x)), in 1/10000
Cos(x) == Interp(CosTable, Abs(x))

-----------------------------------------------------------------------------
(* Flight constants, example.py:18-22 *)

VS_CLIMB == Q(700)
VS_DESCENT == Q(-600)
PITCH_CLIMB == Q(7)
PITCH_DESCENT == Q(-4)
ALT_CAPTURE_BAND == Q(80)

(* Screen layout and controls, example.py:12, 47-59 *)

PFD_WIDTH == 800

MODES == << "CLIMB", "DESCENT", "CRUISE", "ROLLS" >>

Rect(x, y, w, h) == [x |-> x, y |-> y, w |-> w, h |-> h]

\* pygame.Rect.collidepoint: the right and bottom edges are outside
collidepoint(r, p) ==
    /\ r.x <= p[1] /\ p[1] < r.x + r.w
    /\ r.y <= p[2] /\ p[2] < r.y + r.h

\* buttons[MODES[i]], i counted from 1 as enumerate counts from 0
buttons(i) == Rect(PFD_WIDTH + 50, 100 + (i - 1) * 80, 300, 60)

ALT_UP == Rect(PFD_WIDTH + 100, 460, 100, 40)
ALT_DN == Rect(PFD_WIDTH + 210, 460, 100, 40)
IAS_UP == Rect(PFD_WIDTH + 120, 560, 80, 40)
IAS_DN == Rect(PFD_WIDTH + 210, 560, 80, 40)
TURN_UP == Rect(PFD_WIDTH + 100, 660, 90, 40)
TURN_DN == Rect(PFD_WIDTH + 210, 660, 90, 40)

BANK_OPTIONS == << -65, -60, -45, -30, 0, 30, 45, 60, 65 >>

\* BANK_OPTIONS.index(b); bank_angle is always an element
BankIndex(b) == CHOOSE i \in 1..Len(BANK_OPTIONS) : BANK_OPTIONS[i] = b

-----------------------------------------------------------------------------
(* Helpers, example.py:84-91 *)

\* dt left out: v + (t - v) * r
smoothNoDt(v, t, r, d) == v + RoundDiv((t - v) * r, 10)

\* v + (t - v) * r * dt, r in tenths per second, d in milliseconds
smooth(v, t, r, d) == v + RoundDiv((t - v) * r * d, 10000)

update_airspeed(ias, p, target, d) ==
    smooth(ias, target - RoundDiv(p * 4, 10), 8, d)

\* the reciprocal left out: max(0.01, cos(bank))
compute_gNoReciprocal(bank) == RoundDiv(Max(100, Cos(bank)), 100)

\* 1.0 / max(0.01, cos(bank))
compute_g(bank) == RoundDiv(Q(1) * 10000, Max(100, Cos(bank)))

-----------------------------------------------------------------------------
(* The display object, pfd.py:37-185.  The resolution and size are whole   *)
(* pixels; unit and the positions and sizes handed to the instruments are  *)
(* in sixteenths of a pixel, so that the division by 16 is exact.  An      *)
(* attribute that is None, or not yet set, is the empty sequence, and one  *)
(* that has a value is the sequence of that value.                         *)

SCREEN_HEIGHT == 800

\* whole pixels to sixteenths of a pixel
Px(n) == n * 16

\* the larger side taken
PfdSizeMax(resolution) == Max(resolution[1], resolution[2])

\* pfd.py:47
PfdSize(resolution) == Min(resolution[1], resolution[2])

\* pfd.py:48, in sixteenths of a pixel
PfdUnit(size) == Px(size) \div 16

\* pfd.py:39-40: the rectangle of a surface of this resolution; pygame
\* keeps centerx and centery as whole pixels
SurfaceRect(resolution) ==
    [ w |-> resolution[1], h |-> resolution[2],
      centerx |-> resolution[1] \div 2, centery |-> resolution[2] \div 2 ]

\* an instrument as pfd.py builds it: the size and position it is given
Instrument(size, position) == [size |-> size, position |-> position]

\* pfd.py:38-109.  The vertical speed indicator is left out: its position
\* is read off the rectangle the altitude indicator computes for itself.
PrimaryFlightDisplay(resolution) ==
    LET surface_rect == SurfaceRect(resolution)
        size == PfdSize(resolution)
        unit == PfdUnit(size)
        centerx == Px(surface_rect.centerx)
        centery == Px(surface_rect.centery)
    IN  [ resolution |-> resolution,
          surface |-> << >>,
          surface_rect |-> surface_rect,
          fps |-> 0,
          size |-> size,
          unit |-> unit,
          artifical_horizon |->
              Instrument(Px(size) \div 2, << centerx, centery >>),
          airspeed_indicator |->
              Instrument(Px(size) \div 2, << centerx - unit * 5, centery >>),
          altitude_indicator |->
              Instrument(Px(size) \div 2, << centerx + unit * 5, centery >>),
          heading_indicator |->
              Instrument(Px(size) \div 2, << centerx, centery + unit * 5 >>),
          state |-> << >>,
          real_time |-> << >>,
          sim_time |-> << >> ]

\* example.py:38-44
PFD == PrimaryFlightDisplay(<< PFD_WIDTH, SCREEN_HEIGHT >>)

\* pfd.py:114-122: update(state, real_time, sim_time)
update(p, state, real_time, sim_time) ==
    [p EXCEPT !.state = << state >>, !.real_time = real_time,
              !.sim_time = sim_time]

\* pfd.py:127-143: draw() fills the surface, draws the instruments with the
\* state they were given, and writes the frame rate and the times
draw(p) ==
    [p EXCEPT !.surface = << [state |-> p.state, fps |-> p.fps,
                              real_time |-> p.real_time,
                              sim_time |-> p.sim_time] >>]

\* pfd.py:174-179: tick(), f is what game_clock.get_fps() returns
tick(p, f) == [p EXCEPT !.fps = f]

\* pfd.py:184-185
get_surface(p) == p.surface

-----------------------------------------------------------------------------
(* State *)

\* the aircraft state and setpoints a step reads, as one record
Snapshot ==
    [ mode |-> mode, prev_mode |-> prev_mode,
      ALTITUDE_CMD |-> ALTITUDE_CMD, IAS_CMD |-> IAS_CMD,
      bank_angle |-> bank_angle,
      roll |-> roll, pitch |-> pitch, heading |-> heading,
      airspeed |-> airspeed, altitude |-> altitude, vspeed |-> vspeed,
      g_factor |-> g_factor, running |-> running, settle |-> settle ]

NoEvent == [type |-> "NONE", pos |-> << 0, 0 >>]

\* example.py:65-79, 96, but for prev_mode and bank_angle
Start ==
    /\ mode = "CRUISE"
    /\ ALTITUDE_CMD = Q(1000)
    /\ IAS_CMD = Q(100)
    /\ roll = 0
    /\ pitch = 0
    /\ heading = 0
    /\ airspeed = Q(100)
    /\ altitude = Q(1000)
    /\ vspeed = 0
    /\ g_factor = Q(1)
    /\ running = TRUE
    /\ queue = << >>
    /\ batch = << >>
    /\ clicks = 0
    /\ applied = 0
    /\ settle = 0
    /\ turning = 0
    /\ last = [op |-> "init", ev |-> NoEvent, pre |-> Snapshot]

NoSmooth == [v |-> 0, t |-> 0, r |-> 0, prev |-> 0]

\* example.py:60-79, 96
Init ==
    /\ prev_mode = "CRUISE"
    /\ bank_angle = 0
    /\ Start
    /\ dt \in DTS
    /\ pfd = PFD
    /\ pc = "tick"
    /\ sm = NoSmooth

-----------------------------------------------------------------------------
(* Events, example.py:104-139 *)

\* where the user can click: the middle of every control, and the panel
\* heading, which is no control
Centre(r) == << r.x + r.w \div 2, r.y + r.h \div 2 >>

ClickPoints ==
    { Centre(buttons(i)) : i \in 1..Len(MODES) }
        \cup { Centre(ALT_UP), Centre(ALT_DN), Centre(IAS_UP), Centre(IAS_DN),
               Centre(TURN_UP), Centre(TURN_DN) }
        \cup { << PFD_WIDTH + 80, 50 >> }

Events ==
    { [type |-> "MOUSEBUTTONDOWN", pos |-> p] : p \in ClickPoints }
        \cup { [type |-> "QUIT", pos |-> << 0, 0 >>] }

\* the user clicks or closes the window: pygame queues the event; n is the
\* number of events the run is given
PostUpTo(n) ==
    /\ running
    /\ clicks < n
    /\ Len(queue) < MaxQueue
    /\ \E e \in Events : queue' = Append(queue, e)
    /\ clicks' = clicks + 1
    /\ UNCHANGED << mode, prev_mode, ALTITUDE_CMD, IAS_CMD, bank_angle, roll,
                    pitch, heading, airspeed, altitude, vspeed, g_factor, dt,
                    running, pc, batch, applied, settle, last, sm, turning,
                    pfd >>

Post == PostUpTo(MaxClicks)

\* example.py:98, 104: dt = clock.tick(60) / 1000; pygame.event.get() takes
\* everything queued
ClockTick ==
    /\ pc = "tick"
    /\ running
    /\ batch' = queue
    /\ queue' = << >>
    /\ pc' = "events"
    /\ applied' = 0
    /\ last' = [op |-> "tick", ev |-> NoEvent, pre |-> Snapshot]
    /\ UNCHANGED << mode, prev_mode, ALTITUDE_CMD, IAS_CMD, bank_angle, roll,
                    pitch, heading, airspeed, altitude, vspeed, g_factor, dt,
                    running, clicks, settle, sm, turning, pfd >>

\* example.py:110-113, the loop over the mode buttons from button i on:
\* s is << prev_mode, mode >>
RECURSIVE ModeButtons(_, _, _)
ModeButtons(i, s, pos) ==
    IF i > Len(MODES) THEN s
    ELSE ModeButtons(i + 1,
                     IF collidepoint(buttons(i), pos)
                       THEN << s[2], MODES[i] >> ELSE s,
                     pos)

\* the CRUISE test left out
AltKnobModeAlways(m, to) == to

\* example.py:118-119, 122-123: the mode after an altitude-knob press
AltKnobMode(m, to) == IF m = "CRUISE" THEN to ELSE m

\* IAS -5 adding in place of subtracting
IasKnobBothUp(ias, pos) ==
    LET ias1 == IF collidepoint(IAS_UP, pos) THEN ias + Q(5) ELSE ias
    IN  IF collidepoint(IAS_DN, pos) THEN ias1 + Q(5) ELSE ias1

\* example.py:126-129
IasKnob(ias, pos) ==
    LET ias1 == IF collidepoint(IAS_UP, pos) THEN ias + Q(5) ELSE ias
    IN  IF collidepoint(IAS_DN, pos) THEN ias1 - Q(5) ELSE ias1

\* the index wrapping round at the top
TurnUpWraps(b) == BANK_OPTIONS[(BankIndex(b) % Len(BANK_OPTIONS)) + 1]

\* example.py:132-135
TurnUp(b) ==
    LET idx == BankIndex(b)
    IN  IF idx < Len(BANK_OPTIONS) THEN BANK_OPTIONS[idx + 1] ELSE b

\* example.py:136-139
TurnDn(b) ==
    LET idx == BankIndex(b)
    IN  IF idx > 1 THEN BANK_OPTIONS[idx - 1] ELSE b

\* example.py:108-139: one MOUSEBUTTONDOWN event at pos, applied to snapshot s
MouseDown(s, pos) ==
    LET pm == ModeButtons(1, << s.prev_mode, s.mode >>, pos)
        up == collidepoint(ALT_UP, pos)
        dn == collidepoint(ALT_DN, pos)
        cmd1 == IF up THEN s.ALTITUDE_CMD + Q(100) ELSE s.ALTITUDE_CMD
        m1 == IF up THEN AltKnobMode(pm[2], "CLIMB") ELSE pm[2]
        cmd2 == IF dn THEN cmd1 - Q(100) ELSE cmd1
        m2 == IF dn THEN AltKnobMode(m1, "DESCENT") ELSE m1
        ias2 == IasKnob(s.IAS_CMD, pos)
        b1 == IF collidepoint(TURN_UP, pos) THEN TurnUp(s.bank_angle)
                                            ELSE s.bank_angle
        b2 == IF collidepoint(TURN_DN, pos) THEN TurnDn(b1) ELSE b1
    IN  [s EXCEPT !.prev_mode = pm[1], !.mode = m2, !.ALTITUDE_CMD = cmd2,
                  !.IAS_CMD = ias2, !.bank_angle = b2]

\* example.py:105-139: the body of the event loop for event e
ApplyEvent(s, e) ==
    LET s1 == IF e.type = "QUIT" THEN [s EXCEPT !.running = FALSE] ELSE s
    IN  IF e.type = "MOUSEBUTTONDOWN" THEN MouseDown(s1, e.pos) ELSE s1

\* one turn of the for loop at example.py:104
HandleEvent ==
    /\ pc = "events"
    /\ batch # << >>
    /\ LET s == ApplyEvent(Snapshot, Head(batch))
       IN  /\ mode' = s.mode
           /\ prev_mode' = s.prev_mode
           /\ ALTITUDE_CMD' = s.ALTITUDE_CMD
           /\ IAS_CMD' = s.IAS_CMD
           /\ bank_angle' = s.bank_angle
           /\ running' = s.running
           /\ turning' = IF s.mode = mode /\ s.bank_angle = bank_angle
                           THEN turning ELSE 0
    /\ batch' = Tail(batch)
    /\ applied' = applied + 1
    /\ settle' = 0
    /\ last' = [op |-> "event", ev |-> Head(batch), pre |-> Snapshot]
    /\ UNCHANGED << roll, pitch, heading, airspeed, altitude, vspeed,
                    g_factor, dt, pc, queue, clicks, sm, pfd >>

-----------------------------------------------------------------------------
(* Flight logic, example.py:144-191.  s is the snapshot, d the frame time *)

\* the capture band left out
DescentCapturesNoBand(alt, cmd) == alt <= cmd

\* the band on the wrong side of the commanded altitude
DescentCapturesBelow(alt, cmd) == alt <= cmd - ALT_CAPTURE_BAND

\* the capture band left out
ClimbCapturesNoBand(alt, cmd) == alt >= cmd

\* example.py:150
ClimbCaptures(alt, cmd) == alt >= cmd - ALT_CAPTURE_BAND

\* example.py:159
DescentCaptures(alt, cmd) == alt <= cmd + ALT_CAPTURE_BAND

\* capture only on the commanded altitude itself
CaptureDoneExact(error) == error = 0

\* example.py:170
CaptureDone(error) == Abs(error) < Q(5)

\* np.clip(x, lo, hi)
clip(x, lo, hi) == Max(lo, Min(hi, x))

\* example.py:144-151
Climb(s, d) ==
    LET r == smooth(s.roll, 0, 20, d)
        p == smooth(s.pitch, PITCH_CLIMB, 15, d)
        vs == smooth(s.vspeed, VS_CLIMB, 15, d)
        alt == s.altitude + RoundDiv(vs * d, 60 * 1000)
        ias == update_airspeed(s.airspeed, p, s.IAS_CMD - Q(10), d)
    IN  [s EXCEPT !.roll = r, !.pitch = p, !.vspeed = vs, !.altitude = alt,
                  !.airspeed = ias,
                  !.mode = IF ClimbCaptures(alt, s.ALTITUDE_CMD)
                             THEN "ALT_CAPTURE" ELSE s.mode]

\* example.py:153-160
Descent(s, d) ==
    LET r == smooth(s.roll, 0, 20, d)
        p == smooth(s.pitch, PITCH_DESCENT, 15, d)
        vs == smooth(s.vspeed, VS_DESCENT, 15, d)
        alt == s.altitude + RoundDiv(vs * d, 60 * 1000)
        ias == update_airspeed(s.airspeed, p, s.IAS_CMD + Q(5), d)
    IN  [s EXCEPT !.roll = r, !.pitch = p, !.vspeed = vs, !.altitude = alt,
                  !.airspeed = ias,
                  !.mode = IF DescentCaptures(alt, s.ALTITUDE_CMD)
                             THEN "ALT_CAPTURE" ELSE s.mode]

\* the mode change without the snap
CaptureSnapModeOnly(s) == [s EXCEPT !.mode = "CRUISE"]

\* example.py:171-175: the snap onto the commanded values
CaptureSnap(s) ==
    [s EXCEPT !.altitude = s.ALTITUDE_CMD, !.airspeed = s.IAS_CMD,
              !.pitch = 0, !.vspeed = 0, !.mode = "CRUISE"]

\* example.py:164-168: the altitude an ALT_CAPTURE tick has integrated
CaptureIntegrated(s, d) ==
    LET error == s.ALTITUDE_CMD - s.altitude
        vs_cmd == clip(error * 5, Q(-500), Q(500))
        vs == smooth(s.vspeed, vs_cmd, 20, d)
    IN  s.altitude + RoundDiv(vs * d, 25 * 1000)

\* example.py:162-175
AltCapture(s, d) ==
    LET r == smooth(s.roll, 0, 25, d)
        error == s.ALTITUDE_CMD - s.altitude
        vs_cmd == clip(error * 5, Q(-500), Q(500))
        vs == smooth(s.vspeed, vs_cmd, 20, d)
        p == smooth(s.pitch, RoundDiv(vs_cmd, 150), 20, d)
        alt == CaptureIntegrated(s, d)
        ias == update_airspeed(s.airspeed, p, s.IAS_CMD, d)
        s1 == [s EXCEPT !.roll = r, !.vspeed = vs, !.pitch = p,
                        !.altitude = alt, !.airspeed = ias]
    IN  IF CaptureDone(error) THEN CaptureSnap(s1) ELSE s1

\* CRUISE integrating the altitude as CLIMB and DESCENT do
CruiseIntegrates(s, d) ==
    LET vs == smooth(s.vspeed, 0, 30, d)
    IN  [s EXCEPT !.roll = smooth(s.roll, 0, 30, d),
                  !.pitch = smooth(s.pitch, 0, 30, d),
                  !.vspeed = vs,
                  !.altitude = s.altitude + RoundDiv(vs * d, 60 * 1000),
                  !.airspeed = smooth(s.airspeed, s.IAS_CMD, 12, d)]

\* example.py:177-181
Cruise(s, d) ==
    [s EXCEPT !.roll = smooth(s.roll, 0, 30, d),
              !.pitch = smooth(s.pitch, 0, 30, d),
              !.vspeed = smooth(s.vspeed, 0, 30, d),
              !.airspeed = smooth(s.airspeed, s.IAS_CMD, 12, d)]

\* example.py:183-188
Rolls(s, d) ==
    LET r == smooth(s.roll, Q(s.bank_angle), 15, d)
        g_target == compute_g(Abs(r))
        g == smooth(s.g_factor, g_target, 30, d)
        p == smooth(s.pitch, Q(3) + (g - Q(1)) * 3, 15, d)
        ias == update_airspeed(s.airspeed, p, s.IAS_CMD - Q(5), d)
    IN  [s EXCEPT !.roll = r, !.g_factor = g, !.pitch = p, !.airspeed = ias]

\* the chain written with if in place of elif: a branch that changes the
\* mode falls into the branch of the new mode
ModeDispatchFallsThrough(s, d) ==
    LET s1 == IF s.mode = "CLIMB" THEN Climb(s, d) ELSE s
        s2 == IF s1.mode = "DESCENT" THEN Descent(s1, d) ELSE s1
        s3 == IF s2.mode = "ALT_CAPTURE" THEN AltCapture(s2, d) ELSE s2
        s4 == IF s3.mode = "CRUISE" THEN Cruise(s3, d) ELSE s3
    IN  IF s4.mode = "ROLLS" THEN Rolls(s4, d) ELSE s4

\* example.py:144-188: the if / elif chain over the mode
ModeDispatch(s, d) ==
    IF s.mode = "CLIMB" THEN Climb(s, d)
    ELSE IF s.mode = "DESCENT" THEN Descent(s, d)
    ELSE IF s.mode = "ALT_CAPTURE" THEN AltCapture(s, d)
    ELSE IF s.mode = "CRUISE" THEN Cruise(s, d)
    ELSE IF s.mode = "ROLLS" THEN Rolls(s, d)
    ELSE s

\* the decay applied in every mode
GDecayAlways(s, d) == [s EXCEPT !.g_factor = smooth(s.g_factor, Q(1), 25, d)]

\* example.py:190-191: the decay reads the mode the dispatch left
GDecay(s, d) ==
    IF s.mode # "ROLLS" THEN [s EXCEPT !.g_factor = smooth(s.g_factor, Q(1), 25, d)]
                        ELSE s

\* the flight logic not waiting for the end of the event loop
EventLoopLeftEarly == TRUE

\* example.py:104: the for loop has gone through the events it was given
EventLoopDone == batch = << >>

Transient == {"CLIMB", "DESCENT", "ALT_CAPTURE"}

\* example.py:144-191; the event loop is over when it starts
FlightLogic ==
    /\ pc = "events"
    /\ EventLoopDone
    /\ LET s == GDecay(ModeDispatch(Snapshot, dt), dt)
       IN  /\ mode' = s.mode
           /\ roll' = s.roll
           /\ pitch' = s.pitch
           /\ vspeed' = s.vspeed
           /\ altitude' = s.altitude
           /\ airspeed' = s.airspeed
           /\ g_factor' = s.g_factor
           /\ settle' = IF s.mode \in Transient
                          THEN Min(settle + 1, SettleTicks + 1) ELSE 0
           /\ turning' = IF s.mode = "ROLLS"
                           THEN Min(turning + 1, TurnTicks) ELSE 0
    /\ pc' = "heading"
    /\ last' = [op |-> "logic", ev |-> NoEvent, pre |-> Snapshot]
    /\ UNCHANGED << prev_mode, ALTITUDE_CMD, IAS_CMD, bank_angle, heading, dt,
                    running, queue, batch, clicks, applied, sm, pfd >>

-----------------------------------------------------------------------------
(* Heading dynamics, example.py:196-198 *)

\* or in place of and
TurnActiveEither(r, ias) == Abs(r) > Q(1) \/ ias > Q(30)

\* example.py:196
TurnActive(r, ias) == Abs(r) > Q(1) /\ ias > Q(30)

\* example.py:197, in hundredths of a degree per second: Tan is in 1/10000
\* and the airspeed in hundredths of a knot
TurnRate(r, ias) == RoundDiv(1091 * Tan(r), Max(ias, Q(1)))

\* the modulo left out
HeadingNoWrap(h) == h

\* example.py:198
HeadingWrap(h) == h % Q(360)

\* example.py:196-198
NextHeading(h, r, ias, d) ==
    IF TurnActive(r, ias)
      THEN HeadingWrap(h + RoundDiv(TurnRate(r, ias) * d, 1000))
      ELSE h

\* example.py:196-290: the heading update, then the frame is drawn and the
\* while condition is tested
HeadingDynamics ==
    /\ pc = "heading"
    /\ heading' = NextHeading(heading, roll, airspeed, dt)
    /\ pc' = IF running THEN "tick" ELSE "exit"
    /\ last' = [op |-> "heading", ev |-> NoEvent, pre |-> Snapshot]
    /\ UNCHANGED << mode, prev_mode, ALTITUDE_CMD, IAS_CMD, bank_angle, roll,
                    pitch, airspeed, altitude, vspeed, g_factor, dt, running,
                    queue, batch, clicks, applied, settle, sm, turning, pfd >>

-----------------------------------------------------------------------------

\* the steps of the program itself
Loop == ClockTick \/ HandleEvent \/ FlightLogic \/ HeadingDynamics

Next == Post \/ Loop

Spec == Init /\ [][Next]_vars

-----------------------------------------------------------------------------
(* A session under way.  TURN +, the ROLLS button and the CRUISE button    *)
(* were pressed within one frame, so the three events were applied by one  *)
(* turn of the event loop and the aircraft never left level flight: all    *)
(* that differs from the start is prev_mode and bank_angle.  The loop      *)
(* reaches this state (SessionStartReached) once the user has posted three *)
(* events; SessionSpec lets the user go on clicking from there.            *)

SessionDts == {250}

SessionInit ==
    /\ prev_mode = "ROLLS"
    /\ bank_angle = 30
    /\ Start
    /\ pfd = PFD
    /\ dt \in SessionDts
    /\ pc = "tick"
    /\ sm = NoSmooth

SessionSpec == SessionInit /\ [][Next]_vars

SessionStartReached ==
    /\ mode = "CRUISE" /\ prev_mode = "ROLLS"
    /\ ALTITUDE_CMD = Q(1000) /\ IAS_CMD = Q(100) /\ bank_angle = 30
    /\ roll = 0 /\ pitch = 0 /\ heading = 0 /\ airspeed = Q(100)
    /\ altitude = Q(1000) /\ vspeed = 0 /\ g_factor = Q(1)
    /\ settle = 0
    /\ running /\ pc = "tick" /\ queue = << >> /\ batch = << >>

-----------------------------------------------------------------------------
(* smooth() iterated on its own: a start value, a target, one of the       *)
(* program's rates and a frame time, then one application per step.        *)

SmoothRates == {8, 12, 15, 20, 25, 30}
SmoothDts == {100, 250, 400}
SmoothTargets == {Q(-7), 0, 333}
SmoothStarts == { 53 * i : i \in -SmoothRange..SmoothRange }

SmoothInit ==
    /\ prev_mode = "CRUISE"
    /\ bank_angle = 0
    /\ Start
    /\ pfd = PFD
    /\ dt \in SmoothDts
    /\ pc = "smooth"
    /\ \E v \in SmoothStarts, t \in SmoothTargets, r \in SmoothRates :
          sm = [v |-> v, t |-> t, r |-> r, prev |-> v]

SmoothStep ==
    /\ pc = "smooth"
    /\ sm' = [sm EXCEPT !.v = smooth(sm.v, sm.t, sm.r, dt), !.prev = sm.v]
    /\ UNCHANGED << mode, prev_mode, ALTITUDE_CMD, IAS_CMD, bank_angle, roll,
                    pitch, heading, airspeed, altitude, vspeed, g_factor, dt,
                    running, pc, queue, batch, clicks, applied, settle, last,
                    turning, pfd >>

SmoothSpec == SmoothInit /\ [][SmoothStep]_vars

-----------------------------------------------------------------------------
(* A run that starts with a bank selected.  TURN + or TURN - was pressed   *)
(* before the first frame, which changes bank_angle and nothing else; the  *)
(* user then posts TurnClicks further events.                              *)

TurnBanks == {-65, 0, 60, 65}

TurnInit ==
    /\ prev_mode = "CRUISE"
    /\ bank_angle \in TurnBanks
    /\ Start
    /\ dt \in DTS
    /\ pc = "tick"
    /\ sm = NoSmooth
    /\ pfd = PFD

TurnPost == PostUpTo(TurnClicks)

TurnNext == TurnPost \/ Loop

TurnSpec == TurnInit /\ [][TurnNext]_vars

-----------------------------------------------------------------------------
(* A fresh start at frame times of 17, 50 and 100 ms (60, 20 and 10 frames *)
(* per second); the user posts TurnClicks events.                          *)

FineDts == {17, 50, 100}

FineInit ==
    /\ prev_mode = "CRUISE"
    /\ bank_angle = 0
    /\ Start
    /\ dt \in FineDts
    /\ pc = "tick"
    /\ sm = NoSmooth
    /\ pfd = PFD

FineSpec == FineInit /\ [][TurnNext]_vars

-----------------------------------------------------------------------------
(* A climb cut short.  From a fresh start at 20 frames per second the user *)
(* presses ALT +100, and later, at any moment, ALT -100 and the DESCENT    *)
(* button one right after the other, so that the two events are queued     *)
(* together.                                                               *)

GestureDts == {50}

Click(r) == [type |-> "MOUSEBUTTONDOWN", pos |-> Centre(r)]

GestureInit ==
    /\ prev_mode = "CRUISE"
    /\ bank_angle = 0
    /\ Start
    /\ dt \in GestureDts
    /\ pc = "tick"
    /\ sm = NoSmooth
    /\ pfd = PFD

\* the user posts the events es, having posted n events before
PostAll(es, n) ==
    /\ running
    /\ clicks = n
    /\ queue' = queue \o es
    /\ clicks' = clicks + Len(es)
    /\ UNCHANGED << mode, prev_mode, ALTITUDE_CMD, IAS_CMD, bank_angle, roll,
                    pitch, heading, airspeed, altitude, vspeed, g_factor, dt,
                    running, pc, batch, applied, settle, last, sm, turning,
                    pfd >>

PostAltUp == PostAll(<< Click(ALT_UP) >>, 0)

PostAltDnDescent == PostAll(<< Click(ALT_DN), Click(buttons(2)) >>, 1)

GestureNext == PostAltUp \/ PostAltDnDescent \/ Loop

GestureSpec == GestureInit /\ [][GestureNext]_vars

-----------------------------------------------------------------------------
(* The display object on its own: built for a resolution, then update,     *)
(* draw, tick and get_surface called in any order.                         *)

PfdSides == {400, 600, 800, 801}
PfdResolutions == PfdSides \X PfdSides
PfdFps == {30, 60}
PfdTimes == {<< >>, << 1 >>}

\* aircraft states handed to update: level flight, and a climbing turn
PfdStates ==
    { [roll |-> 0, pitch |-> 0, airspeed |-> Q(100), airspeed_cmd |-> Q(100),
       altitude |-> Q(1000), altitude_cmd |-> Q(1000), vspeed |-> 0,
       heading |-> 0, heading_cmd |-> << >>, course |-> 0],
      [roll |-> Q(30), pitch |-> Q(7), airspeed |-> Q(95),
       airspeed_cmd |-> Q(100), altitude |-> Q(1200),
       altitude_cmd |-> Q(2000), vspeed |-> Q(700), heading |-> Q(90),
       heading_cmd |-> << >>, course |-> Q(90)] }

PfdInit ==
    /\ prev_mode = "CRUISE"
    /\ bank_angle = 0
    /\ Start
    /\ dt \in DTS
    /\ pc = "pfd"
    /\ sm = NoSmooth
    /\ \E resolution \in PfdResolutions :
          pfd = PrimaryFlightDisplay(resolution)

PfdUnchanged ==
    UNCHANGED << mode, prev_mode, ALTITUDE_CMD, IAS_CMD, bank_angle, roll,
                 pitch, heading, airspeed, altitude, vspeed, g_factor, dt,
                 running, pc, queue, batch, clicks, applied, settle, last,
                 sm, turning >>

PfdUpdate ==
    /\ pc = "pfd"
    /\ \E state \in PfdStates, real_time \in PfdTimes, sim_time \in PfdTimes :
          pfd' = update(pfd, state, real_time, sim_time)
    /\ PfdUnchanged

PfdDraw ==
    /\ pc = "pfd"
    /\ pfd' = draw(pfd)
    /\ PfdUnchanged

PfdTick ==
    /\ pc = "pfd"
    /\ \E f \in PfdFps : pfd' = tick(pfd, f)
    /\ PfdUnchanged

\* the caller is handed the surface; the object stays as it is
PfdGetSurface ==
    /\ pc = "pfd"
    /\ get_surface(pfd) = pfd.surface
    /\ pfd' = pfd
    /\ PfdUnchanged

PfdNext == PfdUpdate \/ PfdDraw \/ PfdTick \/ PfdGetSurface

PfdSpec == PfdInit /\ [][PfdNext]_vars

-----------------------------------------------------------------------------
(* The claims.  last.pre is the snapshot the last step started from. *)

\* the last step applied a mouse click that landed in rectangle r
Hit(r) ==
    /\ last.op = "event"
    /\ last.ev.type = "MOUSEBUTTONDOWN"
    /\ collidepoint(r, last.ev.pos)

HitAnyModeButton == \E i \in 1..Len(MODES) : Hit(buttons(i))

\* C1: an altitude-knob event handled in CRUISE sets the mode to CLIMB (ALT
\* +100) or DESCENT (ALT -100); handled in any other mode it leaves the mode
\* alone; either way it moves ALTITUDE_CMD by exactly +100 / -100.
C1_AltKnobCoupling ==
    /\ Hit(ALT_UP) =>
         /\ ALTITUDE_CMD = last.pre.ALTITUDE_CMD + 10000
         /\ mode = IF last.pre.mode = "CRUISE" THEN "CLIMB" ELSE last.pre.mode
    /\ Hit(ALT_DN) =>
         /\ ALTITUDE_CMD = last.pre.ALTITUDE_CMD - 10000
         /\ mode = IF last.pre.mode = "CRUISE" THEN "DESCENT" ELSE last.pre.mode

C1_Witness ==
    /\ Hit(ALT_DN)
    /\ last.pre.mode = "ALT_CAPTURE"
    /\ mode = "ALT_CAPTURE"
    /\ ALTITUDE_CMD = last.pre.ALTITUDE_CMD - 10000

\* C2: a tick that starts in CLIMB ends in ALT_CAPTURE exactly when the
\* altitude it has just integrated is at or above ALTITUDE_CMD - 80, and
\* otherwise ends in CLIMB: the hand-over is neither early nor late.
C2_ClimbCapturesAtBand ==
    (last.op = "logic" /\ last.pre.mode = "CLIMB") =>
        /\ mode \in {"CLIMB", "ALT_CAPTURE"}
        /\ mode = "ALT_CAPTURE" <=> altitude >= ALTITUDE_CMD - 8000

C2_Witness ==
    /\ last.op = "logic"
    /\ last.pre.mode = "CLIMB"
    /\ last.pre.settle >= 3
    /\ last.pre.altitude < ALTITUDE_CMD - 8000
    /\ altitude >= ALTITUDE_CMD - 8000
    /\ mode = "ALT_CAPTURE"

\* C3: a tick in ALT_CAPTURE that finds |ALTITUDE_CMD - altitude| < 5 ends
\* with altitude = ALTITUDE_CMD, airspeed = IAS_CMD, pitch = 0, vspeed = 0
\* and mode CRUISE; one that does not find it ends in ALT_CAPTURE.
C3_CaptureSnap ==
    (last.op = "logic" /\ last.pre.mode = "ALT_CAPTURE") =>
        IF Abs(last.pre.ALTITUDE_CMD - last.pre.altitude) < 500
          THEN /\ altitude = ALTITUDE_CMD
               /\ airspeed = IAS_CMD
               /\ pitch = 0
               /\ vspeed = 0
               /\ mode = "CRUISE"
          ELSE mode = "ALT_CAPTURE"

C3_Witness ==
    /\ last.op = "logic"
    /\ last.pre.mode = "ALT_CAPTURE"
    /\ last.pre.altitude # ALTITUDE_CMD
    /\ last.pre.vspeed # 0
    /\ last.pre.pitch # 0
    /\ last.pre.airspeed # IAS_CMD
    /\ altitude = ALTITUDE_CMD /\ airspeed = IAS_CMD
    /\ pitch = 0 /\ vspeed = 0 /\ mode = "CRUISE"

\* C4: with no event applied, the controller spends at most SettleTicks
\* ticks in a row in CLIMB, DESCENT or ALT_CAPTURE, and the tick that takes
\* it out of them leaves it in CRUISE with altitude = ALTITUDE_CMD.
C4_CaptureSettles ==
    /\ settle <= SettleTicks
    /\ (last.op = "logic" /\ last.pre.mode \in Transient /\ mode \notin Transient)
          => (mode = "CRUISE" /\ altitude = ALTITUDE_CMD)

C4_Witness ==
    /\ last.op = "logic"
    /\ last.pre.mode = "ALT_CAPTURE"
    /\ last.pre.settle >= 40
    /\ mode = "CRUISE"
    /\ altitude = ALTITUDE_CMD

\* C5: the flight logic changes the mode only along CLIMB -> ALT_CAPTURE,
\* DESCENT -> ALT_CAPTURE and ALT_CAPTURE -> CRUISE, one edge per tick; no
\* other step of the loop changes it but an event; an event never produces
\* ALT_CAPTURE, and ROLLS is entered and left only by a mode button.
C5_ModeEdges ==
    /\ last.op = "logic" =>
         \/ mode = last.pre.mode
         \/ << last.pre.mode, mode >> \in
              { << "CLIMB", "ALT_CAPTURE" >>, << "DESCENT", "ALT_CAPTURE" >>,
                << "ALT_CAPTURE", "CRUISE" >> }
    /\ last.op \in {"tick", "heading"} => mode = last.pre.mode
    /\ last.op = "event" =>
         /\ mode = "ALT_CAPTURE" => last.pre.mode = "ALT_CAPTURE"
         /\ (mode = "ROLLS") # (last.pre.mode = "ROLLS") => HitAnyModeButton
         /\ (mode = "ROLLS" /\ last.pre.mode # "ROLLS") => Hit(buttons(4))

C5_Witness ==
    /\ last.op = "logic"
    /\ last.pre.mode = "DESCENT"
    /\ last.pre.settle >= 3
    /\ mode = "ALT_CAPTURE"

C8_EventsDrainedFirst ==
    /\ pc \in {"heading", "tick", "exit"} => batch = << >>
    /\ last.op = "event" => pc = "events"
    /\ last.op = "logic" => pc = "heading"
    /\ last.op \in {"logic", "heading"} =>
         /\ ALTITUDE_CMD = last.pre.ALTITUDE_CMD
         /\ IAS_CMD = last.pre.IAS_CMD
         /\ bank_angle = last.pre.bank_angle
         /\ prev_mode = last.pre.prev_mode
    /\ last.op = "heading" => mode = last.pre.mode

C8_Witness ==
    /\ last.op = "logic"
    /\ applied = 2
    /\ queue = << >>
    /\ batch = << >>
    /\ ALTITUDE_CMD # 100000
    /\ mode = "ROLLS"

\* C9: with r * dt <= 1, one application of smooth moves the value toward
\* the target, never away from it and never past it.
C9_SmoothConverges ==
    (pc = "smooth" /\ sm.r * dt <= 10000) =>
        /\ Abs(sm.t - sm.v) <= Abs(sm.t - sm.prev)
        /\ sm.prev <= sm.t => (sm.prev <= sm.v /\ sm.v <= sm.t)
        /\ sm.prev >= sm.t => (sm.prev >= sm.v /\ sm.v >= sm.t)

C9_Witness ==
    /\ pc = "smooth"
    /\ sm.r * dt = 10000
    /\ sm.prev < sm.v
    /\ sm.v = sm.t

\* C10: whenever an event changes the mode, prev_mode afterwards is the mode
\* from just before that event.
C10_PrevModeRecorded ==
    (last.op = "event" /\ mode # last.pre.mode) => prev_mode = last.pre.mode

\* C11: while the mode stays ROLLS with the bank selection and the frame
\* time fixed, roll settles on the selection and g_factor settles on
\* 1 / max(0.01, cos(roll)): after TurnTicks iterations without an event both
\* are within one hundredth of it, which is 2.00 g for a selection of 60
\* degrees and 1.00 g for a selection of 0 degrees.
C11_GSettles ==
    (mode = "ROLLS" /\ turning >= TurnTicks) =>
        /\ Abs(roll - 100 * bank_angle) <= 1
        /\ Abs(g_factor - compute_g(Abs(roll))) <= 1
        /\ bank_angle = 60 => Abs(g_factor - 200) <= 1
        /\ bank_angle = 0 => g_factor = 100

C11_Witness ==
    /\ mode = "ROLLS"
    /\ bank_angle = 60
    /\ turning >= TurnTicks
    /\ last.op = "logic"
    /\ Abs(roll - 6000) <= 1
    /\ g_factor >= 199

\* C12: a display built for resolution (w, h) has size = min(w, h) and
\* unit = size / 16, which is 50 pixels for (800, 800); the airspeed, altitude
\* and heading indicators are given the centre of the surface moved by
\* unit * 5 to the left, to the right and downwards; and update, draw, tick
\* and get_surface leave size and unit as they were built.
C12_GeometryUnit ==
    /\ [](pc = "pfd" =>
            LET w == pfd.resolution[1]
                h == pfd.resolution[2]
                cx == 16 * (w \div 2)
                cy == 16 * (h \div 2)
            IN  /\ pfd.size = IF w <= h THEN w ELSE h
                \* unit is in sixteenths of a pixel: size / 16 pixels
                /\ pfd.unit * 16 = pfd.size * 16
                /\ (w = 800 /\ h = 800) => pfd.unit = 16 * 50
                /\ pfd.airspeed_indicator.position = << cx - 5 * pfd.unit, cy >>
                /\ pfd.altitude_indicator.position = << cx + 5 * pfd.unit, cy >>
                /\ pfd.heading_indicator.position = << cx, cy + 5 * pfd.unit >>)
    /\ [][pc = "pfd" => pfd'.size = pfd.size /\ pfd'.unit = pfd.unit]_vars

C12_Witness ==
    /\ pc = "pfd"
    /\ pfd.resolution = << 800, 800 >>
    /\ pfd.unit = 16 * 50
    /\ pfd.airspeed_indicator.position = << 16 * 150, 16 * 400 >>
    /\ pfd.state # << >>
    /\ pfd.fps = 60
    /\ pfd.surface # << >>
    /\ pfd.surface[1].fps = 60

\* C13: the transition test of a tick reads the altitude that tick has
\* integrated: a CLIMB tick ends in ALT_CAPTURE exactly when the new altitude
\* is at or above ALTITUDE_CMD - 80, a DESCENT tick exactly when it is at or
\* below ALTITUDE_CMD + 80, and an ALT_CAPTURE tick ends in CRUISE exactly
\* when the altitude it has integrated is within 5 ft of ALTITUDE_CMD.
C13_TransitionAfterUpdate ==
    last.op = "logic" =>
        /\ last.pre.mode = "CLIMB" =>
              (mode = "ALT_CAPTURE" <=> altitude >= ALTITUDE_CMD - 8000)
        /\ last.pre.mode = "DESCENT" =>
              (mode = "ALT_CAPTURE" <=> altitude <= ALTITUDE_CMD + 8000)
        /\ last.pre.mode = "ALT_CAPTURE" =>
              (mode = "CRUISE" <=>
                  Abs(ALTITUDE_CMD - CaptureIntegrated(last.pre, dt)) < 500)

\* C14: a tick that starts in DESCENT ends in ALT_CAPTURE exactly when the
\* altitude it has just integrated is at or below ALTITUDE_CMD + 80, and
\* otherwise ends in DESCENT; so the first tick after DESCENT is selected at
\* or below ALTITUDE_CMD + 80 hands over to ALT_CAPTURE if the vertical speed
\* it has smoothed is not upwards.
C14_DescentCapturesAtBand ==
    (last.op = "logic" /\ last.pre.mode = "DESCENT") =>
        /\ mode \in {"DESCENT", "ALT_CAPTURE"}
        /\ mode = "ALT_CAPTURE" <=> altitude <= ALTITUDE_CMD + 8000
        /\ (/\ last.pre.settle = 0
            /\ last.pre.altitude <= ALTITUDE_CMD + 8000
            /\ vspeed <= 0) => mode = "ALT_CAPTURE"

C14_Witness ==
    /\ last.op = "logic"
    /\ last.pre.mode = "DESCENT"
    /\ last.pre.settle = 0
    /\ last.pre.altitude <= ALTITUDE_CMD + 8000
    /\ last.pre.prev_mode = "CLIMB"
    /\ vspeed <= 0
    /\ mode = "ALT_CAPTURE"

\* C14 as stated: the first tick after DESCENT is selected at or below
\* ALTITUDE_CMD + 80 hands over to ALT_CAPTURE, whatever the vertical speed.
C14_HandsOverAtOnce ==
    (last.op = "logic" /\ last.pre.mode = "DESCENT") =>
        /\ mode \in {"DESCENT", "ALT_CAPTURE"}
        /\ mode = "ALT_CAPTURE" <=> altitude <= ALTITUDE_CMD + 8000
        /\ (/\ last.pre.settle = 0
            /\ last.pre.altitude <= ALTITUDE_CMD + 8000) => mode = "ALT_CAPTURE"

\* the state is as the last step found it, but for IAS_CMD (bank_angle) and
\* the bookkeeping of settle
OnlyIasChanged ==
    [Snapshot EXCEPT !.IAS_CMD = last.pre.IAS_CMD,
                     !.settle = last.pre.settle] = last.pre

OnlyBankChanged ==
    [Snapshot EXCEPT !.bank_angle = last.pre.bank_angle,
                     !.settle = last.pre.settle] = last.pre

\* C15: the steps of a tick that are not events (taking the events, the
\* flight logic with the snap and the g-load, the heading update) leave
\* ALTITUDE_CMD, IAS_CMD and bank_angle as they were; an IAS-knob event moves
\* IAS_CMD by exactly +5 / -5 and a TURN-knob event changes bank_angle, and
\* neither changes the mode, another setpoint or any aircraft state.
C15_SetpointsByEventsOnly ==
    /\ last.op \in {"tick", "logic", "heading"} =>
          /\ ALTITUDE_CMD = last.pre.ALTITUDE_CMD
          /\ IAS_CMD = last.pre.IAS_CMD
          /\ bank_angle = last.pre.bank_angle
    /\ Hit(IAS_UP) => (IAS_CMD = last.pre.IAS_CMD + 500 /\ OnlyIasChanged)
    /\ Hit(IAS_DN) => (IAS_CMD = last.pre.IAS_CMD - 500 /\ OnlyIasChanged)
    /\ (Hit(TURN_UP) \/ Hit(TURN_DN)) => OnlyBankChanged

C15_Witness ==
    /\ Hit(IAS_DN)
    /\ last.pre.mode = "ALT_CAPTURE"
    /\ last.pre.vspeed # 0
    /\ IAS_CMD = last.pre.IAS_CMD - 500
    /\ mode = "ALT_CAPTURE"
    /\ ALTITUDE_CMD # Q(1000)

\* C16: bank_angle is always one of -65, -60, -45, -30, 0, 30, 45, 60, 65; a
\* TURN + event moves it to the next higher of them and a TURN - event to
\* the next lower, and at 65 (TURN +) and -65 (TURN -) the event leaves it
\* where it is; no other step changes it.
C16_BankSelection ==
    LET options == {-65, -60, -45, -30, 0, 30, 45, 60, 65}
        was == last.pre.bank_angle
        higher == {b \in options : b > was}
        lower == {b \in options : b < was}
    IN  /\ bank_angle \in options
        /\ Hit(TURN_UP) =>
              IF was = 65 THEN bank_angle = 65
              ELSE bank_angle \in higher /\ \A b \in higher : bank_angle <= b
        /\ Hit(TURN_DN) =>
              IF was = -65 THEN bank_angle = -65
              ELSE bank_angle \in lower /\ \A b \in lower : bank_angle >= b
        /\ ~(Hit(TURN_UP) \/ Hit(TURN_DN)) => bank_angle = was

C16_Witness ==
    /\ Hit(TURN_UP)
    /\ last.pre.bank_angle = 65
    /\ bank_angle = 65

\* C17: a tick in CRUISE or ROLLS leaves the altitude as it was whatever the
\* vertical speed, a tick in ROLLS leaves the vertical speed as it was too,
\* and the altitude changes on no step but the flight logic of a tick in
\* CLIMB, DESCENT or ALT_CAPTURE.
C17_LevelModesKeepAltitude ==
    /\ (last.op = "logic" /\ last.pre.mode \in {"CRUISE", "ROLLS"}) =>
          altitude = last.pre.altitude
    /\ (last.op = "logic" /\ last.pre.mode = "ROLLS") =>
          vspeed = last.pre.vspeed
    /\ altitude # last.pre.altitude =>
          /\ last.op = "logic"
          /\ last.pre.mode \in {"CLIMB", "DESCENT", "ALT_CAPTURE"}

C17_Witness ==
    /\ last.op = "logic"
    /\ last.pre.mode = "CRUISE"
    /\ last.pre.vspeed > Q(100)
    /\ last.pre.altitude # ALTITUDE_CMD
    /\ altitude = last.pre.altitude

\* C18: the flight logic of a tick updates g_factor once: in ROLLS by
\* smoothing it toward 1 / max(0.01, cos(roll)) of the roll just updated, at
\* rate 3.0, with no decay; in every other mode, the tick of an internal
\* transition included, by smoothing it toward 1.0 at rate 2.5.
C18_GUpdateRule ==
    last.op = "logic" =>
        g_factor =
            IF last.pre.mode = "ROLLS"
              THEN smooth(last.pre.g_factor, compute_g(Abs(roll)), 30, dt)
              ELSE smooth(last.pre.g_factor, 100, 25, dt)

C18_Witness ==
    /\ last.op = "logic"
    /\ last.pre.mode = "ALT_CAPTURE"
    /\ mode = "CRUISE"
    /\ last.pre.g_factor > 105
    /\ g_factor < last.pre.g_factor

\* C19: at a frame time of at most 0.1 s, the CLIMB or DESCENT button pressed
\* in CRUISE at altitude = ALTITUDE_CMD with |vspeed| <= 700, as the only
\* event of its frame, gives ALT_CAPTURE at the end of that tick, within 5 ft
\* of ALTITUDE_CMD, and the next tick ends in CRUISE with altitude =
\* ALTITUDE_CMD again.
C19_ButtonWithoutSetpoint ==
    (last.op = "logic" /\ dt <= 100) =>
        /\ (/\ last.pre.mode \in {"CLIMB", "DESCENT"}
            /\ last.pre.prev_mode = "CRUISE"
            /\ last.pre.settle = 0
            /\ applied = 1
            /\ last.pre.altitude = ALTITUDE_CMD
            /\ Abs(last.pre.vspeed) <= 70000) =>
              (mode = "ALT_CAPTURE" /\ Abs(ALTITUDE_CMD - altitude) < 500)
        /\ (/\ last.pre.mode = "ALT_CAPTURE"
            /\ last.pre.settle = 1
            /\ applied = 0
            /\ Abs(ALTITUDE_CMD - last.pre.altitude) < 500) =>
              (mode = "CRUISE" /\ altitude = ALTITUDE_CMD)

C19_Witness ==
    /\ last.op = "logic"
    /\ dt <= 100
    /\ clicks = 1
    /\ prev_mode = "CRUISE"
    /\ last.pre.mode = "ALT_CAPTURE"
    /\ last.pre.settle = 1
    /\ last.pre.altitude < ALTITUDE_CMD
    /\ mode = "CRUISE"
    /\ altitude = ALTITUDE_CMD
====
